---- MODULE Spec2Model ----
(***************************************************************************)
(* Model of extension-chrome/app.js: the quote builder (lignes, ligneId,   *)
(* addLigne / removeLigne / updateLigne, renderLignes, calcTotal), the     *)
(* package estimator (calcForfait) and the price grid (renderGrille).      *)
(*                                                                         *)
(* Text is a sequence of one-character strings, so that parseFloat,        *)
(* parseInt and toFixed are computed character by character.  A service    *)
(* code (ref) is an atomic string: the code only tests it for emptiness    *)
(* and uses it as a key of TARIFS.                                         *)
(*                                                                         *)
(* A JavaScript number is a record [nan, c]: c counts hundredths.  The     *)
(* quantities the model feeds in are multiples of 0.5 with at most two     *)
(* fractional digits and the prices are integers, so every product and sum *)
(* is exact in IEEE doubles and in hundredths alike.                       *)
(***************************************************************************)
EXTENDS Integers, Sequences, FiniteSets, TLC

\* ------------------------------------------------------------------ bounds
MaxId == 3            \* addLigne is enabled while ligneId < MaxId
MaxLen == 2           \* longest line-item list drawn for the calcTotal check
MaxHeadcount == 25    \* largest headcount typed into forf-sal
MaxMoves == 2         \* largest hires / exits count typed into forf-in / forf-out

\* ------------------------------------------------------------- JS numbers
NaN == [nan |-> TRUE, c |-> 0]
Num(c) == [nan |-> FALSE, c |-> c]
FromInt(n) == Num(100 * n)
Plus(a, b) == IF a.nan \/ b.nan THEN NaN ELSE Num(a.c + b.c)
\* integer price times a number
Times(k, a) == IF a.nan THEN NaN ELSE Num(k * a.c)

Digits == <<"0", "1", "2", "3", "4", "5", "6", "7", "8", "9">>
IsDigit(ch) == \E d \in 1..10 : Digits[d] = ch
DigitVal(ch) == (CHOOSE d \in 1..10 : Digits[d] = ch) - 1

\* first index at or after i whose character is not a digit
RECURSIVE DigitRunEnd(_, _)
DigitRunEnd(s, i) ==
  IF i <= Len(s) /\ IsDigit(s[i]) THEN DigitRunEnd(s, i + 1) ELSE i

\* value of the digits s[i..j-1]
RECURSIVE DigitsValue(_, _, _, _)
DigitsValue(s, i, j, acc) ==
  IF i >= j THEN acc ELSE DigitsValue(s, i + 1, j, 10 * acc + DigitVal(s[i]))

IsSign(s) == Len(s) > 0 /\ s[1] \in {"+", "-"}

\* parseFloat: optional sign, digits, optional "." and digits; the longest
\* such prefix is converted, NaN when it holds no digit.
parseFloat(s) ==
  LET start == IF IsSign(s) THEN 2 ELSE 1
      sign == IF Len(s) > 0 /\ s[1] = "-" THEN -1 ELSE 1
      iEnd == DigitRunEnd(s, start)
      hasDot == iEnd <= Len(s) /\ s[iEnd] = "."
      fEnd == IF hasDot THEN DigitRunEnd(s, iEnd + 1) ELSE iEnd
      nInt == iEnd - start
      nFrac == IF hasDot THEN fEnd - iEnd - 1 ELSE 0
      intPart == DigitsValue(s, start, iEnd, 0)
      d1 == IF nFrac >= 1 THEN DigitVal(s[iEnd + 1]) ELSE 0
      d2 == IF nFrac >= 2 THEN DigitVal(s[iEnd + 2]) ELSE 0
  IN IF nInt + nFrac = 0 THEN NaN
     ELSE Num(sign * (100 * intPart + 10 * d1 + d2))

\* parseInt(s) || 0: optional sign and digits; NaN and 0 both give 0.
parseIntOr0(s) ==
  LET start == IF IsSign(s) THEN 2 ELSE 1
      sign == IF Len(s) > 0 /\ s[1] = "-" THEN -1 ELSE 1
      iEnd == DigitRunEnd(s, start)
  IN IF iEnd = start THEN 0 ELSE sign * DigitsValue(s, start, iEnd, 0)

\* decimal digits of n >= 0
RECURSIVE NatToText(_)
NatToText(n) ==
  IF n < 10 THEN <<Digits[n + 1]>>
  ELSE NatToText(n \div 10) \o <<Digits[(n % 10) + 1]>>

\* String(n) for an integer n
IntToText(n) == IF n < 0 THEN <<"-">> \o NatToText(-n) ELSE NatToText(n)

\* Number.prototype.toFixed(2)
toFixed2(x) ==
  IF x.nan THEN <<"N", "a", "N">>
  ELSE LET a == IF x.c < 0 THEN -x.c ELSE x.c
       IN (IF x.c < 0 THEN <<"-">> ELSE <<>>)
          \o NatToText(a \div 100)
          \o <<".", Digits[((a % 100) \div 10) + 1], Digits[(a % 10) + 1]>>

Euro == <<" ", "€">>

\* ----------------------------------------------------------------- catalog
TARIFS ==
  << [ref |-> "AUD-001", tarif |-> 120, cat |-> "Audit"],
     [ref |-> "MIS-001", tarif |-> 120, cat |-> "Audit"],
     [ref |-> "REP-001", tarif |-> 120, cat |-> "Audit"],
     [ref |-> "BUL-001", tarif |-> 20, cat |-> "Bulletins"],
     [ref |-> "BUL-004", tarif |-> 15, cat |-> "Bulletins"],
     [ref |-> "ENV-001", tarif |-> 2, cat |-> "Bulletins"],
     [ref |-> "ENV-002", tarif |-> 2, cat |-> "Bulletins"],
     [ref |-> "ENT-001", tarif |-> 15, cat |-> "Gestion"],
     [ref |-> "STC-001", tarif |-> 50, cat |-> "Gestion"],
     [ref |-> "MED-001", tarif |-> 45, cat |-> "Gestion"],
     [ref |-> "MUT-001", tarif |-> 45, cat |-> "Gestion"],
     [ref |-> "ATT-001", tarif |-> 20, cat |-> "Gestion"],
     [ref |-> "DAT-001", tarif |-> 30, cat |-> "Gestion"],
     [ref |-> "PRV-001", tarif |-> 45, cat |-> "Gestion"],
     [ref |-> "SIM-001", tarif |-> 50, cat |-> "Gestion"],
     [ref |-> "BTP-001", tarif |-> 20, cat |-> "BTP"],
     [ref |-> "BTP-002", tarif |-> 20, cat |-> "BTP"],
     [ref |-> "BTP-003", tarif |-> 20, cat |-> "BTP"],
     [ref |-> "CDI-001", tarif |-> 150, cat |-> "Contrats"],
     [ref |-> "CDD-001", tarif |-> 100, cat |-> "Contrats"],
     [ref |-> "SAI-001", tarif |-> 120, cat |-> "Contrats"],
     [ref |-> "AVE-001", tarif |-> 70, cat |-> "Contrats"],
     [ref |-> "AVE-002", tarif |-> 80, cat |-> "Contrats"],
     [ref |-> "DUE-001", tarif |-> 200, cat |-> "DUE"],
     [ref |-> "DUE-002", tarif |-> 200, cat |-> "DUE"],
     [ref |-> "DUE-003", tarif |-> 200, cat |-> "DUE"],
     [ref |-> "DUE-004", tarif |-> 275, cat |-> "DUE"],
     [ref |-> "RUP-001", tarif |-> 350, cat |-> "Ruptures"],
     [ref |-> "LIC-001", tarif |-> 200, cat |-> "Ruptures"],
     [ref |-> "LIC-002", tarif |-> 170, cat |-> "Ruptures"],
     [ref |-> "LIC-003", tarif |-> 500, cat |-> "Ruptures"],
     [ref |-> "LIC-004", tarif |-> 750, cat |-> "Ruptures"],
     [ref |-> "IND-001", tarif |-> 110, cat |-> "Indemnités"],
     [ref |-> "IND-002", tarif |-> 165, cat |-> "Indemnités"],
     [ref |-> "IND-003", tarif |-> 220, cat |-> "Indemnités"],
     [ref |-> "IND-004", tarif |-> 330, cat |-> "Indemnités"],
     [ref |-> "CON-001", tarif |-> 120, cat |-> "Autres"],
     [ref |-> "FOR-001", tarif |-> 150, cat |-> "Autres"] >>

\* TARIFS[ref] is truthy
InTarifs(ref) == \E i \in 1..Len(TARIFS) : TARIFS[i].ref = ref
\* TARIFS[ref].tarif
TarifOf(ref) == TARIFS[CHOOSE i \in 1..Len(TARIFS) : TARIFS[i].ref = ref].tarif

FORFAIT_CONFIG ==
  [bulletinMoins20 |-> 20, bulletinPlus20 |-> 15, coffreFort |-> 2,
   entree |-> 15, sortie |-> 50]

\* ------------------------------------------------------------------- state
VARIABLES
  loaded,            \* the DOMContentLoaded handler has run
  lignes,            \* sequence of [id, ref, qte]
  ligneId,           \* last id handed out
  lignesContainer,   \* rows written by renderLignes: [id, total, removeBtn]
  totalHt,           \* text of #total-ht
  totalNet,          \* text of #total-net
  forfInput,         \* form values read by the last calcForfait
  forfaitDetails,    \* breakdown lines written by calcForfait
  forfMens,          \* text of #forf-mens
  forfAn,            \* text of #forf-an
  grilleContent      \* categories written by renderGrille, in order

vars ==
  <<loaded, lignes, ligneId, lignesContainer, totalHt, totalNet,
    forfInput, forfaitDetails, forfMens, forfAn, grilleContent>>

devisVars == <<lignes, ligneId, lignesContainer, totalHt, totalNet>>
forfaitVars == <<forfInput, forfaitDetails, forfMens, forfAn>>

\* ------------------------------------------------------------ input sets
\* ids passed to removeLigne / updateLigne: every id handed out so far can
\* be named, and so can 0 and MaxId + 1, which no line ever carries
IdArgs == 0..(MaxId + 1)
\* values of the <select>: the placeholder option and catalog codes
RefArgs == {"", "BUL-001"}
\* values of the quantity <input type="number">
QteArgs == {<<>>, <<"1", ".", "5">>}

\* text of #total-ht / #total-net before the first calcTotal
InitialTotalText == toFixed2(Num(0)) \o Euro

\* ----------------------------------------------------------- quote builder
\* ligneId++
nextLigneId(n) == n + 1

\* mutant: the id is taken from the length of the list
pushLigneByLength(ls, id) ==
  Append(ls, [id |-> Len(ls) + 1, ref |-> "", qte |-> <<>>])

\* lignes.push({ id: ligneId, ref: '', qte: '' })
pushLigne(ls, id) == Append(ls, [id |-> id, ref |-> "", qte |-> <<>>])

\* mutant: the guard only asks for a non-empty list
canRemoveNonEmpty(ls) == Len(ls) > 0

\* the guard of removeLigne: lignes.length > 1
canRemove(ls) == Len(ls) > 1

\* mutant: the filter keeps the matching item instead of dropping it
filterLignesKeepMatch(ls, id) == SelectSeq(ls, LAMBDA l : l.id = id)

\* lignes.filter(l => l.id !== id)
filterLignes(ls, id) == SelectSeq(ls, LAMBDA l : l.id # id)

\* mutant: find returns the first item whatever its id
findLigneFirst(ls, id) == IF Len(ls) > 0 THEN 1 ELSE 0

\* lignes.find(l => l.id === id): index of the first match, 0 when none
findLigne(ls, id) ==
  IF \E i \in 1..Len(ls) : ls[i].id = id
  THEN CHOOSE i \in 1..Len(ls) :
         ls[i].id = id /\ \A j \in 1..(i - 1) : ls[j].id # id
  ELSE 0

\* ligne[field] = value
setField(ls, i, field, value) ==
  IF field = "ref" THEN [ls EXCEPT ![i].ref = value]
  ELSE [ls EXCEPT ![i].qte = value]

\* one step of the reduce in calcTotal
reduceStep(sum, l) ==
  IF l.ref # "" /\ Len(l.qte) > 0 /\ InTarifs(l.ref)
  THEN Plus(sum, Times(TarifOf(l.ref), parseFloat(l.qte)))
  ELSE sum

RECURSIVE reduceFrom(_, _, _)
reduceFrom(ls, i, sum) ==
  IF i > Len(ls) THEN sum ELSE reduceFrom(ls, i + 1, reduceStep(sum, ls[i]))

\* the number calcTotal computes
calcTotalValue(ls) == reduceFrom(ls, 1, Num(0))

\* the text calcTotal writes to #total-ht and #total-net
calcTotalText(ls) == toFixed2(calcTotalValue(ls)) \o Euro

Placeholder == <<"-">>

\* text of one row's <span class="total">
ligneTotalText(l) ==
  LET tarif == IF l.ref # "" /\ InTarifs(l.ref) THEN TarifOf(l.ref) ELSE 0
  IN IF l.ref # "" /\ Len(l.qte) > 0
     THEN toFixed2(Times(tarif, parseFloat(l.qte))) \o <<"€">>
     ELSE Placeholder

\* rows renderLignes writes to #lignes-container
renderLignes(ls) ==
  [i \in 1..Len(ls) |->
     [id |-> ls[i].id, total |-> ligneTotalText(ls[i]), removeBtn |-> Len(ls) > 1]]

\* ------------------------------------------------------- package estimator
\* values typed into forf-sal and into forf-in / forf-out
SalArgs ==
  {IntToText(k) : k \in ((-1)..1) \cup (19..MaxHeadcount)} \cup {<<>>, <<"a">>}
MoveArgs == {IntToText(k) : k \in (-1)..MaxMoves} \cup {<<>>}
\* values forf-sal holds when the page has just loaded
InitialSalArgs == {<<>>}

\* mutant: the threshold excludes 20
prixBulStrict(n) ==
  IF n < 20 THEN FORFAIT_CONFIG.bulletinMoins20 ELSE FORFAIT_CONFIG.bulletinPlus20

\* n <= 20 ? FORFAIT_CONFIG.bulletinMoins20 : FORFAIT_CONFIG.bulletinPlus20
prixBulOf(n) ==
  IF n <= 20 THEN FORFAIT_CONFIG.bulletinMoins20 ELSE FORFAIT_CONFIG.bulletinPlus20

mBulOf(n) == n * prixBulOf(n)
mCoffreOf(n, coffre) == IF coffre THEN n * FORFAIT_CONFIG.coffreFort ELSE 0
mInOf(entrees) == entrees * FORFAIT_CONFIG.entree
mOutOf(sorties) == sorties * FORFAIT_CONFIG.sortie

\* mutant: only the components whose line is displayed are summed
forfaitTotalShown(n, entrees, sorties, coffre) ==
  mBulOf(n) + mCoffreOf(n, coffre)
  + (IF entrees > 0 THEN mInOf(entrees) ELSE 0)
  + (IF sorties > 0 THEN mOutOf(sorties) ELSE 0)

\* const total = mBul + mCoffre + mIn + mOut
forfaitTotal(n, entrees, sorties, coffre) ==
  mBulOf(n) + mCoffreOf(n, coffre) + mInOf(entrees) + mOutOf(sorties)

\* (total * 12)
annualOf(total) == total * 12

\* the conditions under which a result-line is appended
showCoffre(coffre) == coffre
\* mutant: the hires line is also shown for a count of 0
showEntreesFromZero(entrees) == entrees >= 0
showEntrees(entrees) == entrees > 0
showSorties(sorties) == sorties > 0

resultLine(label, count, unit, amount) ==
  [label |-> label, count |-> IntToText(count), unit |-> IntToText(unit),
   amount |-> toFixed2(FromInt(amount)) \o Euro]

\* the result-lines written to #forfait-details; the unit prices 2, 15 and
\* 50 are literals of the markup, not read from FORFAIT_CONFIG
forfaitLines(n, entrees, sorties, coffre) ==
  <<resultLine("Bulletins", n, prixBulOf(n), mBulOf(n))>>
  \o (IF showCoffre(coffre)
      THEN <<resultLine("Coffre-fort", n, 2, mCoffreOf(n, coffre))>> ELSE <<>>)
  \o (IF showEntrees(entrees)
      THEN <<resultLine("Entrées", entrees, 15, mInOf(entrees))>> ELSE <<>>)
  \o (IF showSorties(sorties)
      THEN <<resultLine("Sorties", sorties, 50, mOutOf(sorties))>> ELSE <<>>)

\* calcForfait reading the form values sal, in, out, coffre
calcForfait(sal, in, out, coffre) ==
  LET n == parseIntOr0(sal)
      entrees == parseIntOr0(in)
      sorties == parseIntOr0(out)
      total == forfaitTotal(n, entrees, sorties, coffre)
  IN /\ forfInput' = [sal |-> sal, in |-> in, out |-> out, coffre |-> coffre]
     /\ forfaitDetails' = forfaitLines(n, entrees, sorties, coffre)
     /\ forfMens' = toFixed2(FromInt(total)) \o Euro
     /\ forfAn' = toFixed2(FromInt(annualOf(total))) \o Euro

\* -------------------------------------------------------------- price grid
\* cats[t.cat].push(...) for entry i, a new category going to the end
RECURSIVE groupFrom(_, _)
groupFrom(i, cats) ==
  IF i > Len(TARIFS) THEN cats
  ELSE LET t == TARIFS[i]
           k == IF \E j \in 1..Len(cats) : cats[j].cat = t.cat
                THEN CHOOSE j \in 1..Len(cats) : cats[j].cat = t.cat
                ELSE 0
       IN groupFrom(i + 1,
            IF k = 0 THEN Append(cats, [cat |-> t.cat, items |-> <<t.ref>>])
            ELSE [cats EXCEPT ![k].items = Append(@, t.ref)])

renderGrille == groupFrom(1, <<>>)

\* ---------------------------------------------------------------- actions
Init ==
  /\ loaded = FALSE
  /\ lignes = <<>>
  /\ ligneId = 0
  /\ lignesContainer = <<>>
  /\ totalHt = InitialTotalText
  /\ totalNet = InitialTotalText
  /\ forfInput = [sal |-> <<>>, in |-> <<>>, out |-> <<>>, coffre |-> FALSE]
  /\ forfaitDetails = <<>>
  /\ forfMens = <<>>
  /\ forfAn = <<>>
  /\ grilleContent = <<>>

\* addLigne(); calcForfait(); renderGrille();
DOMContentLoaded ==
  /\ ~loaded
  /\ loaded' = TRUE
  /\ ligneId' = nextLigneId(ligneId)
  /\ lignes' = pushLigne(lignes, ligneId')
  /\ lignesContainer' = renderLignes(lignes')
  /\ \E sal \in InitialSalArgs : calcForfait(sal, <<>>, <<>>, FALSE)
  /\ grilleContent' = renderGrille
  /\ UNCHANGED <<totalHt, totalNet>>

addLigne ==
  /\ loaded
  /\ ligneId < MaxId
  /\ ligneId' = nextLigneId(ligneId)
  /\ lignes' = pushLigne(lignes, ligneId')
  /\ lignesContainer' = renderLignes(lignes')
  /\ UNCHANGED <<loaded, totalHt, totalNet, forfaitVars, grilleContent>>

\* mutant: removeLigne re-renders without recomputing the total
removeLigneNoTotal(id) ==
  /\ loaded
  /\ IF canRemove(lignes)
     THEN /\ lignes' = filterLignes(lignes, id)
          /\ lignesContainer' = renderLignes(lignes')
          /\ UNCHANGED <<totalHt, totalNet>>
     ELSE UNCHANGED <<lignes, lignesContainer, totalHt, totalNet>>
  /\ UNCHANGED <<loaded, ligneId, forfaitVars, grilleContent>>

removeLigne(id) ==
  /\ loaded
  /\ IF canRemove(lignes)
     THEN /\ lignes' = filterLignes(lignes, id)
          /\ lignesContainer' = renderLignes(lignes')
          /\ totalHt' = calcTotalText(lignes')
          /\ totalNet' = calcTotalText(lignes')
     ELSE UNCHANGED <<lignes, lignesContainer, totalHt, totalNet>>
  /\ UNCHANGED <<loaded, ligneId, forfaitVars, grilleContent>>

updateLigne(id, field, value) ==
  /\ loaded
  /\ LET i == findLigne(lignes, id)
     IN IF i # 0
        THEN /\ lignes' = setField(lignes, i, field, value)
             /\ totalHt' = calcTotalText(lignes')
             /\ totalNet' = calcTotalText(lignes')
        ELSE UNCHANGED <<lignes, totalHt, totalNet>>
  /\ UNCHANGED <<loaded, ligneId, lignesContainer, forfaitVars, grilleContent>>

\* the user edits the package form and calcForfait runs
forfaitChange(sal, in, out, coffre) ==
  /\ loaded
  /\ calcForfait(sal, in, out, coffre)
  /\ UNCHANGED <<loaded, devisVars, grilleContent>>

Next ==
  \/ DOMContentLoaded
  \/ addLigne
  \/ \E id \in IdArgs : removeLigne(id)
  \/ \E id \in IdArgs, value \in RefArgs : updateLigne(id, "ref", value)
  \/ \E id \in IdArgs, value \in QteArgs : updateLigne(id, "qte", value)

Spec == Init /\ [][Next]_vars

NextForfait ==
  \/ DOMContentLoaded
  \/ \E sal \in SalArgs, in \in MoveArgs, out \in MoveArgs, coffre \in BOOLEAN :
       forfaitChange(sal, in, out, coffre)

SpecForfait == Init /\ [][NextForfait]_vars

\* ------------------------------------------- calcTotal on arbitrary lists
\* service codes and quantity texts a line item can hold when updateLigne
\* is handed arbitrary values: unknown code, zero, negative, unparseable
AnyRefArgs == {"", "BUL-001", "BUL-004", "ZZZ-999"}
AnyQteArgs ==
  {<<>>, <<"3">>, <<"0", ".", "5">>, <<"0">>, <<"-", "1">>, <<"a", "b", "c">>}

\* line-item lists of length 1..MaxLen with ids 1..length
AnyLignes ==
  UNION {[1..k -> [id : 1..k, ref : AnyRefArgs, qte : AnyQteArgs]] : k \in 1..MaxLen}

InitCalcTotal ==
  /\ loaded = TRUE
  /\ lignes \in {ls \in AnyLignes : \A i \in 1..Len(ls) : ls[i].id = i}
  /\ ligneId = Len(lignes)
  /\ lignesContainer =
       [i \in 1..Len(lignes) |->
          [id |-> i, total |-> Placeholder, removeBtn |-> Len(lignes) > 1]]
  /\ totalHt = InitialTotalText
  /\ totalNet = InitialTotalText
  /\ forfInput = [sal |-> <<>>, in |-> <<>>, out |-> <<>>, coffre |-> FALSE]
  /\ forfaitDetails = forfaitLines(0, 0, 0, FALSE)
  /\ forfMens = toFixed2(FromInt(0)) \o Euro
  /\ forfAn = toFixed2(FromInt(0)) \o Euro
  /\ grilleContent = renderGrille

calcTotal ==
  /\ totalHt' = calcTotalText(lignes)
  /\ totalNet' = calcTotalText(lignes)
  /\ UNCHANGED <<loaded, lignes, ligneId, lignesContainer, forfaitVars, grilleContent>>

SpecCalcTotal == InitCalcTotal /\ [][calcTotal]_vars

\* ================================================================== claims
RECURSIVE SumOver(_, _)
\* sum of f[i] over the finite index set S
SumOver(f, S) ==
  IF S = {} THEN 0
  ELSE LET i == CHOOSE j \in S : TRUE IN f[i] + SumOver(f, S \ {i})

\* unit price of a service code in hundredths per hundredth-unit: 0 when the
\* code is unset or not in the catalog
PriceOrZero(ref) == IF ref # "" /\ InTarifs(ref) THEN TarifOf(ref) ELSE 0
\* quantity in hundredths: 0 when unset or unparseable
QuantityOrZero(qte) == IF parseFloat(qte).nan THEN 0 ELSE parseFloat(qte).c
\* the total the specification describes, in hundredths
ExpectedTotal(ls) ==
  SumOver([i \in 1..Len(ls) |-> PriceOrZero(ls[i].ref) * QuantityOrZero(ls[i].qte)],
          1..Len(ls))

IdsOf(ls) == [i \in 1..Len(ls) |-> ls[i].id]

\* C1: once the startup addLigne has run, the line-item list holds at least
\* one line item in every reachable state.
C1_NeverEmpty == loaded => Len(lignes) >= 1

\* a removal was suppressed or survived: two ids handed out, one line left
C1_Witness == loaded /\ ligneId >= 2 /\ Len(lignes) = 1

\* C2: calcTotal yields the sum over all line items of (unit price, 0 when
\* the code is unset or unknown) times (quantity, 0 when unset or
\* unparseable), and the total is always a number.
C2_TotalIsSum ==
  /\ ~calcTotalValue(lignes).nan
  /\ calcTotalValue(lignes) = Num(ExpectedTotal(lignes))

\* C3: the per-bulletin price is 20 exactly when the headcount is at most 20
\* and 15 otherwise.
C3_Tier ==
  loaded =>
    LET n == parseIntOr0(forfInput.sal)
    IN /\ forfaitDetails[1].label = "Bulletins"
       /\ (forfaitDetails[1].unit = <<"2", "0">>) <=> (n <= 20)
       /\ (forfaitDetails[1].unit = <<"1", "5">>) <=> (n > 20)

\* headcount 21 priced at the tier-B rate
C3_Witness ==
  /\ loaded
  /\ forfInput.sal = <<"2", "1">>
  /\ forfaitDetails[1].unit = <<"1", "5">>
  /\ forfaitDetails[1].amount = <<"3", "1", "5", ".", "0", "0", " ", "€">>

\* C4: the monthly total is n x price + (n x 2 if secure delivery) +
\* hires x 15 + exits x 50, whether or not a component is displayed, and the
\* annual total is 12 times the monthly total.
C4_Total ==
  loaded =>
    LET n == parseIntOr0(forfInput.sal)
        hires == parseIntOr0(forfInput.in)
        exits == parseIntOr0(forfInput.out)
        monthly == n * (IF n <= 20 THEN 20 ELSE 15)
                   + (IF forfInput.coffre THEN n * 2 ELSE 0)
                   + hires * 15 + exits * 50
    IN /\ forfMens = toFixed2(Num(100 * monthly)) \o Euro
       /\ forfAn = toFixed2(Num(100 * 12 * monthly)) \o Euro

\* the example of the specification: 25, 2, 1, true gives 505.00 and 6060.00
C4_Witness ==
  /\ forfInput = [sal |-> <<"2", "5">>, in |-> <<"2">>, out |-> <<"1">>,
                  coffre |-> TRUE]
  /\ forfMens = <<"5", "0", "5", ".", "0", "0", " ", "€">>
  /\ forfAn = <<"6", "0", "6", "0", ".", "0", "0", " ", "€">>

HasLine(label) == \E i \in 1..Len(forfaitDetails) : forfaitDetails[i].label = label
LineOf(label) ==
  forfaitDetails[CHOOSE i \in 1..Len(forfaitDetails) : forfaitDetails[i].label = label]

\* the part of C5 about bulletins and secure delivery
C5_BulletinsAndCoffre ==
  LET n == parseIntOr0(forfInput.sal)
  IN /\ forfaitDetails[1].label = "Bulletins"
     /\ forfaitDetails[1].count = IntToText(n)
     /\ (n = 0 => /\ forfaitDetails[1].unit = <<"2", "0">>
                  /\ forfaitDetails[1].amount = <<"0", ".", "0", "0", " ", "€">>)
     /\ HasLine("Coffre-fort") <=> forfInput.coffre
     /\ (forfInput.coffre /\ n = 0) =>
          LineOf("Coffre-fort").amount = <<"0", ".", "0", "0", " ", "€">>

\* C5 as stated: the bulletins line is always present, the secure-delivery
\* line exactly when secureDelivery is true, the hires line exactly when
\* hires is nonzero, the exits line exactly when exits is nonzero.
C5_Original ==
  loaded =>
    /\ C5_BulletinsAndCoffre
    /\ HasLine("Entrées") <=> (parseIntOr0(forfInput.in) # 0)
    /\ HasLine("Sorties") <=> (parseIntOr0(forfInput.out) # 0)

\* C5 amended: the hires line is present exactly when hires is greater than
\* zero and the exits line exactly when exits is greater than zero; the
\* bulletins and secure-delivery parts are as stated.
C5_Breakdown ==
  loaded =>
    /\ C5_BulletinsAndCoffre
    /\ HasLine("Entrées") <=> (parseIntOr0(forfInput.in) > 0)
    /\ HasLine("Sorties") <=> (parseIntOr0(forfInput.out) > 0)

\* headcount 0 with secure delivery and a negative hires count: bulletins
\* and secure delivery shown with amount 0, hires not shown
C5_Witness ==
  /\ loaded
  /\ forfInput.sal = <<"0">>
  /\ forfInput.coffre
  /\ forfInput.in = <<"-", "1">>
  /\ forfInput.out = <<"1">>
  /\ Len(forfaitDetails) = 3
  /\ forfaitDetails[2].amount = <<"0", ".", "0", "0", " ", "€">>
  /\ forfaitDetails[3].label = "Sorties"

\* new is old with exactly the items of the given id taken out
IsRemovalOf(old, new, id) ==
  /\ Len(new) = Cardinality({i \in 1..Len(old) : old[i].id # id})
  /\ \E f \in [1..Len(new) -> 1..Len(old)] :
       /\ \A i \in 1..Len(new) : new[i] = old[f[i]] /\ old[f[i]].id # id
       /\ \A i, j \in 1..Len(new) : i < j => f[i] < f[j]

\* C6: removeLigne(id) on a list of more than one item yields the old list
\* with exactly the item of that id taken out, the others unchanged and in
\* order; on a list of exactly one item it leaves the list unchanged.
C6_RemoveFrame ==
  [][\A id \in IdArgs :
       removeLigne(id) =>
         IF Len(lignes) > 1 THEN IsRemovalOf(lignes, lignes', id)
         ELSE lignes' = lignes]_vars

\* the middle one of three lines was removed, the edited first line kept
C6_Witness ==
  /\ IdsOf(lignes) = <<1, 3>>
  /\ lignes[1].ref = "BUL-001"
  /\ lignes[1].qte = <<"1", ".", "5">>
  /\ lignes[2] = [id |-> 3, ref |-> "", qte |-> <<>>]

\* C7: updateLigne with an id no item has leaves the list and the displayed
\* total unchanged; with an id an item has it sets only the named field of
\* that item and keeps every other item, the length, the order and all ids.
C7_UpdateFrame ==
  [][\A id \in IdArgs, field \in {"ref", "qte"} :
       \A value \in (IF field = "ref" THEN RefArgs ELSE QteArgs) :
         updateLigne(id, field, value) =>
           IF \A i \in 1..Len(lignes) : lignes[i].id # id
           THEN UNCHANGED <<lignes, totalHt, totalNet>>
           ELSE /\ Len(lignes') = Len(lignes)
                /\ \A i \in 1..Len(lignes) :
                     /\ lignes'[i].id = lignes[i].id
                     /\ lignes[i].id # id => lignes'[i] = lignes[i]
                     /\ lignes[i].id = id =>
                          IF field = "ref"
                          THEN lignes'[i].ref = value /\ lignes'[i].qte = lignes[i].qte
                          ELSE lignes'[i].qte = value /\ lignes'[i].ref = lignes[i].ref]_vars

\* the second of two lines was edited, the first is still as created
C7_Witness ==
  /\ Len(lignes) = 2
  /\ lignes[1] = [id |-> 1, ref |-> "", qte |-> <<>>]
  /\ lignes[2].ref = "BUL-001"
  /\ lignes[2].qte = <<"1", ".", "5">>

\* C8: no two line items share an id, ids are strictly increasing in list
\* order, and the id given by each addLigne is greater than every id
\* assigned before it, so the id of a removed line is never reused.
C8_Ids ==
  /\ [](/\ \A i, j \in 1..Len(lignes) : i < j => lignes[i].id < lignes[j].id
        /\ \A i \in 1..Len(lignes) : lignes[i].id <= ligneId)
  /\ [][/\ ligneId' >= ligneId
        /\ Len(lignes') > Len(lignes) =>
             /\ lignes'[Len(lignes')].id > ligneId
             /\ lignes'[Len(lignes')].id = ligneId']_vars

\* line 1 was removed and its id was not handed out again
C8_Witness == IdsOf(lignes) = <<2, 3>> /\ ligneId = 3

\* C9: after every addLigne, removeLigne or updateLigne the displayed quote
\* total, the same in total-ht and total-net, is calcTotal of the current
\* line-item list.
C9_TotalFresh ==
  /\ totalHt = totalNet
  /\ totalHt = toFixed2(Num(ExpectedTotal(lignes))) \o Euro

\* a priced line was removed and an unpriced line added: 20 x 1.5 + 20 x 1.5
\* went down to 20 x 1.5
C9_Witness ==
  /\ IdsOf(lignes) = <<2, 3>>
  /\ lignes[1].ref = "BUL-001" /\ lignes[1].qte = <<"1", ".", "5">>
  /\ lignes[2].ref = ""
  /\ totalHt = <<"3", "0", ".", "0", "0", " ", "€">>

\* the per-line amount the specification describes
ExpectedLineText(l) ==
  IF l.ref = "" \/ l.qte = <<>> THEN Placeholder
  ELSE toFixed2(Num(PriceOrZero(l.ref) * QuantityOrZero(l.qte))) \o <<"€">>

\* the number a displayed amount shows, 0 for the placeholder
ShownAmount(text) == QuantityOrZero(text)

\* C10: the per-line amount displayed for each line item is unit price x
\* quantity of its current code and quantity (the placeholder when either is
\* unset), and the displayed per-line amounts sum to the displayed total.
C10_RenderedAgrees ==
  loaded =>
    /\ IdsOf(lignesContainer) = IdsOf(lignes)
    /\ \A i \in 1..Len(lignes) : lignesContainer[i].total = ExpectedLineText(lignes[i])
    /\ SumOver([i \in 1..Len(lignesContainer) |-> ShownAmount(lignesContainer[i].total)],
               1..Len(lignesContainer))
         = ShownAmount(totalHt)

====
